---- MODULE Spec2Model ----
(***************************************************************************)
(* Model of the minimint Lightning module (modules/minimint-ln/src/lib.rs) *)
(* and of the consensus conflict filter                                    *)
(* (minimint/src/consensus/conflictfilter.rs).                             *)
(***************************************************************************)
EXTENDS Integers, Sequences, FiniteSets, TLC

(***************************************************************************)
(* Bounds of the model.                                                    *)
(***************************************************************************)
\* calls of ConflictFilter::next on one stream
MaxStream == 3
\* transaction outputs that create an output outcome (out points 1..MaxOut)
MaxOut == 2
\* highest block height the round consensus reaches
MaxHeight == 1
\* transactions the conflict filter is polled for in one epoch
MaxEpochTxs == 2

(***************************************************************************)
(* Configuration (LightningModuleConfig): the federation's peers and the   *)
(* number of decryption shares needed to decrypt.                          *)
(***************************************************************************)
Peers == {1, 2, 3}
threshold == 2

(***************************************************************************)
(* Transaction inputs (crate::transaction::Input).  A mint input carries a *)
(* bundle Coins<Coin>, modelled as the sequence of its notes; a wallet     *)
(* input carries a peg-in proof; a Lightning input is a ContractInput.     *)
(***************************************************************************)
MintInput(coins) == [kind |-> "Mint", coins |-> coins]
WalletInput(peg_in) == [kind |-> "Wallet", peg_in |-> peg_in]
LNInput(id, amount, witness) ==
    [kind |-> "LN", crontract_id |-> id, amount |-> amount, witness |-> witness]

(***************************************************************************)
(* Threshold crypto, by what the module uses of it.  A ciphertext names    *)
(* its plaintext; "e3" is malformed.  Peer p's decryption share of         *)
(* ciphertext e is <<p, e>>: it verifies against p's public-key share and  *)
(* e, and against nothing else.                                            *)
(***************************************************************************)
Ciphertexts == {"e1", "e2", "e3"}

\* EncryptedPreimage.0.verify()
VerifyCiphertext(e) == e # "e3"

\* the bytes a ciphertext decrypts to: their length, their SHA256, and the
\* key they parse to (schnorrsig::PublicKey::from_slice), "-" when they do not
Plaintext(e) ==
    CASE e = "e1" -> [len |-> 32, sha |-> "h1", key |-> "pk1"]
      [] e = "e2" -> [len |-> 32, sha |-> "h9", key |-> "pk2"]
      [] OTHER    -> [len |-> 0,  sha |-> "h0", key |-> "-"]

\* threshold_sec_key.decrypt_share of peer p: None for a malformed ciphertext
decrypt_share(p, e) ==
    IF VerifyCiphertext(e) THEN [some |-> TRUE, share |-> <<p, e>>]
    ELSE [some |-> FALSE, share |-> <<p, e>>]

\* threshold_pub_keys.decrypt: combines the shares of distinct peers
decrypt(shares, e) ==
    IF /\ Cardinality({sh[1] : sh \in shares}) >= threshold
       /\ \A sh \in shares : sh[2] = <<sh[1], e>>
    THEN [ok |-> TRUE, preimage |-> Plaintext(e)]
    ELSE [ok |-> FALSE, preimage |-> Plaintext("e3")]

\* SHA256 of an outgoing contract's witness preimage
Sha256OfWitness(w) == IF w = "good" THEN "h2" ELSE "hx"

(***************************************************************************)
(* Contracts (contracts::Contract), offers and outputs.                    *)
(***************************************************************************)
Pending == [tag |-> "Pending", key |-> "-"]
SomePreimage(pk) == [tag |-> "Some", key |-> pk]
Invalid == [tag |-> "Invalid", key |-> "-"]

IncomingContract(hash, enc, gw) ==
    [kind |-> "Incoming", hash |-> hash, encrypted_preimage |-> enc,
     gateway_key |-> gw]
OutgoingContract(hash, timelock, gw, user) ==
    [kind |-> "Outgoing", hash |-> hash, timelock |-> timelock,
     gateway_key |-> gw, user_key |-> user]
AccountContract(key) == [kind |-> "Account", key |-> key]

\* the contracts transactions refer to, by contract id
ContractOfId ==
    [id \in {"I1", "I2", "O1", "A1"} |->
        CASE id = "I1" -> IncomingContract("h1", "e1", "gw")
          [] id = "I2" -> IncomingContract("h1", "e2", "gw")
          [] id = "O1" -> OutgoingContract("h2", 1, "gw", "user")
          [] id = "A1" -> AccountContract("k1")]

ContractIds == DOMAIN ContractOfId

\* IdentifyableContract::contract_id: a hash of the contract's immutable
\* fields, one id per contract
contract_id(contract) == CHOOSE id \in ContractIds : ContractOfId[id] = contract

\* Contract::to_funded: an incoming contract gets its out point and starts
\* with the decryption pending
to_funded(contract, out_point) ==
    IF contract.kind = "Incoming"
    THEN [kind |-> "Incoming",
          contract |-> [hash |-> contract.hash,
                        encrypted_preimage |-> contract.encrypted_preimage,
                        decrypted_preimage |-> Pending,
                        gateway_key |-> contract.gateway_key],
          out_point |-> out_point]
    ELSE contract

\* Contract::to_outcome
OutcomeOk == [tag |-> "Ok", key |-> "-"]

to_outcome(contract) ==
    IF contract.kind = "Incoming"
    THEN [variant |-> "Incoming", value |-> Pending]
    ELSE [variant |-> contract.kind, value |-> OutcomeOk]

Offer(hash, amount, enc) ==
    [hash |-> hash, amount |-> amount, encrypted_preimage |-> enc]

ContractOutput(amount, contract) ==
    [kind |-> "Contract", amount |-> amount, contract |-> contract]
OfferOutput(offer) == [kind |-> "Offer", offer |-> offer]

Transaction(inputs, outputs) == [inputs |-> inputs, outputs |-> outputs]

\* the inputs the streams of the filter-only specification are built from
CFInputPool ==
    { MintInput(<<"n1">>), MintInput(<<"n1", "n2">>), WalletInput("p1"),
      LNInput("c1", 1, "none"), LNInput("c1", 2, "none") }

\* every transaction with at most two inputs over the pool
CFTxPool ==
    {Transaction(<<>>, <<>>)}
    \cup {Transaction(<<i>>, <<>>) : i \in CFInputPool}
    \cup {Transaction(<<i, j>>, <<>>) : i \in CFInputPool, j \in CFInputPool}

\* the offers and the transactions the epochs of the module are built from
Offer1 == Offer("h1", 1, "e1")
Offer2 == Offer("h1", 2, "e2")
OfferMalformed == Offer("h1", 1, "e3")
OfferFree == Offer("h1", 0, "e1")

LNTxPool ==
    {Transaction(<<>>, <<OfferOutput(o)>>) :
        o \in {Offer1, Offer2, OfferMalformed, OfferFree}}
    \cup {Transaction(<<>>, <<ContractOutput(0, ContractOfId[id])>>) :
            id \in {"I1", "O1"}}
    \cup {Transaction(<<>>, <<ContractOutput(a, ContractOfId[id])>>) :
            a \in {1, 2}, id \in {"I1", "I2"}}
    \cup {Transaction(<<>>, <<ContractOutput(a, ContractOfId["A1"])>>) :
            a \in {0, 1}}
    \cup {Transaction(<<>>, <<ContractOutput(1, ContractOfId["O1"])>>)}
    \cup {Transaction(<<LNInput(id, 1, "none")>>, <<>>) : id \in ContractIds}
    \cup {Transaction(<<LNInput("O1", 1, w)>>, <<>>) : w \in {"good", "bad"}}
    \cup { Transaction(<<LNInput("A1", 2, "none")>>, <<>>),
           Transaction(<<LNInput("A1", 1, "none"), LNInput("A1", 1, "none")>>, <<>>),
           Transaction(<<>>, <<ContractOutput(1, ContractOfId["I1"]),
                               ContractOutput(1, ContractOfId["I1"])>>) }

VARIABLES
    coin_set,          \* ConflictFilter.coin_set
    peg_in_set,        \* ConflictFilter.peg_in_set
    in_contract_set,   \* ConflictFilter.in_contract_set
    stream,            \* the items inner_iter has yielded so far, in order
    results,           \* what next() returned for each of them: "Some" | "None"
    db,                \* the KV store, one table per key prefix
    batch,             \* the writes the epoch's transactions have queued
    phase,             \* the hook the engine runs next: "begin" | "txs" | "end"
    failed,            \* a batch failed to commit or a hook panicked
    next_out,          \* the out point of the next contract output
    block_height,      \* RoundConsensus.block_height, written by the wallet
    n_polled,        \* transactions the filter was polled for in this epoch
    last_commit,       \* the commit the latest step made: its hook and batch
    last_error,        \* the error the latest transaction was dropped with, or "-"
    resubmitted        \* contracts whose stored shares the epoch's peers topped up

cfVars == <<coin_set, peg_in_set, in_contract_set, stream, results>>
lnVars == <<db, batch, phase, failed, next_out, block_height, n_polled,
           last_commit, last_error, resubmitted>>
vars == <<coin_set, peg_in_set, in_contract_set, stream, results,
          db, batch, phase, failed, next_out, block_height, n_polled,
          last_commit, last_error, resubmitted>>

(***************************************************************************)
(* ConflictFilter::next, the body of the loop over tx.inputs: one match    *)
(* arm per input kind.  HashSet::insert returns false, and leaves the set  *)
(* alone, when the value is already present; the arm then returns None.    *)
(***************************************************************************)
FilterState(cs, ps, ls) ==
    [coin_set |-> cs, peg_in_set |-> ps, in_contract_set |-> ls, ok |-> TRUE]

\* mutant: the Lightning arm never reports a duplicate
InsertInputNoLNCheck(st, input) ==
    CASE input.kind = "Mint" ->
           IF input.coins \in st.coin_set
             THEN [st EXCEPT !.ok = FALSE]
             ELSE [st EXCEPT !.coin_set = @ \cup {input.coins}]
      [] input.kind = "Wallet" ->
           IF input.peg_in \in st.peg_in_set
             THEN [st EXCEPT !.ok = FALSE]
             ELSE [st EXCEPT !.peg_in_set = @ \cup {input.peg_in}]
      [] input.kind = "LN" ->
           [st EXCEPT !.in_contract_set = @ \cup {input.crontract_id}]

InsertInput(st, input) ==
    CASE input.kind = "Mint" ->
           IF input.coins \in st.coin_set
             THEN [st EXCEPT !.ok = FALSE]
             ELSE [st EXCEPT !.coin_set = @ \cup {input.coins}]
      [] input.kind = "Wallet" ->
           IF input.peg_in \in st.peg_in_set
             THEN [st EXCEPT !.ok = FALSE]
             ELSE [st EXCEPT !.peg_in_set = @ \cup {input.peg_in}]
      [] input.kind = "LN" ->
           IF input.crontract_id \in st.in_contract_set
             THEN [st EXCEPT !.ok = FALSE]
             ELSE [st EXCEPT !.in_contract_set = @ \cup {input.crontract_id}]

\* the for loop: stops at the first input whose insert fails
RECURSIVE ScanInputs(_, _)
ScanInputs(inputs, st) ==
    IF inputs = <<>> THEN st
    ELSE LET s1 == InsertInput(st, Head(inputs))
         IN  IF s1.ok THEN ScanInputs(Tail(inputs), s1) ELSE s1

(***************************************************************************)
(* The KV store and its batches (minimint_api::db).  A batch is a sequence *)
(* of items applied in order when it is committed; insert_new fails on a   *)
(* key that is present, and a failed commit is fatal.                      *)
(***************************************************************************)
NoRows == [k \in {} |-> k]

EmptyDb ==
    [Contract |-> NoRows, ContractUpdate |-> NoRows, Offer |-> NoRows,
     ProposeDecryptionShare |-> NoRows, AgreedDecryptionShare |-> NoRows]

InsertNew(table, key, value) ==
    [op |-> "insert_new", table |-> table, key |-> key, arg |-> value]
MaybeUpdate(table, key, f) ==
    [op |-> "maybe_update", table |-> table, key |-> key, arg |-> f]
Delete(table, key) ==
    [op |-> "delete", table |-> table, key |-> key, arg |-> "-"]

Without(rows, key) == [k \in (DOMAIN rows) \ {key} |-> rows[k]]

(***************************************************************************)
(* The closures the module hands to append_maybe_update, run on the row's  *)
(* value when the batch is applied.  An amount below zero stands for the   *)
(* underflow of the unsigned subtraction.                                  *)
(***************************************************************************)
\* apply_input: account.amount -= amount
DebitAccount(amount) == [fn |-> "debit", amount |-> amount, with |-> "-"]
\* apply_output: add to the balance, or create the account
CreditOrCreate(amount, funded_contract) ==
    [fn |-> "credit", amount |-> amount, with |-> funded_contract]
\* end_consensus_epoch: incoming.contract.decrypted_preimage = ...
SetDecryptedPreimage(dp) == [fn |-> "set_preimage", amount |-> 0, with |-> dp]
\* end_consensus_epoch: *outcome = ...
SetOutcome(dp) == [fn |-> "set_outcome", amount |-> 0, with |-> dp]

\* mutant: funding an existing account sets its balance to the output's amount
RunClosureOverwriting(f, present, value) ==
    CASE f.fn = "debit" ->
           IF present
           THEN [ok |-> TRUE, value |-> [value EXCEPT !.amount = @ - f.amount]]
           ELSE [ok |-> FALSE, value |-> f]
      [] f.fn = "credit" ->
           [ok |-> TRUE, value |-> [amount |-> f.amount, contract |-> f.with]]
      [] f.fn = "set_preimage" ->
           IF present /\ value.contract.kind = "Incoming"
           THEN [ok |-> TRUE,
                 value |-> [value EXCEPT
                              !.contract.contract.decrypted_preimage = f.with]]
           ELSE [ok |-> FALSE, value |-> f]
      [] f.fn = "set_outcome" ->
           IF present /\ value.kind = "Contract"
                      /\ value.outcome.variant = "Incoming"
           THEN [ok |-> TRUE, value |-> [value EXCEPT !.outcome.value = f.with]]
           ELSE [ok |-> FALSE, value |-> f]

\* the closure's result: the new value, or a panic (expect, unreachable!)
RunClosure(f, present, value) ==
    CASE f.fn = "debit" ->
           IF present
           THEN [ok |-> TRUE, value |-> [value EXCEPT !.amount = @ - f.amount]]
           ELSE [ok |-> FALSE, value |-> f]
      [] f.fn = "credit" ->
           IF present
           THEN [ok |-> TRUE, value |-> [value EXCEPT !.amount = @ + f.amount]]
           ELSE [ok |-> TRUE,
                 value |-> [amount |-> f.amount, contract |-> f.with]]
      [] f.fn = "set_preimage" ->
           IF present /\ value.contract.kind = "Incoming"
           THEN [ok |-> TRUE,
                 value |-> [value EXCEPT
                              !.contract.contract.decrypted_preimage = f.with]]
           ELSE [ok |-> FALSE, value |-> f]
      [] f.fn = "set_outcome" ->
           IF present /\ value.kind = "Contract"
                      /\ value.outcome.variant = "Incoming"
           THEN [ok |-> TRUE, value |-> [value EXCEPT !.outcome.value = f.with]]
           ELSE [ok |-> FALSE, value |-> f]

\* one batch item applied to the store d; d.ok turns FALSE on a failure
ApplyItem(d, item) ==
    LET rows == d.db[item.table]
        present == item.key \in DOMAIN rows
    IN  CASE item.op = "insert_new" ->
               IF present THEN [d EXCEPT !.ok = FALSE]
               ELSE [d EXCEPT !.db[item.table] = rows @@ (item.key :> item.arg)]
          [] item.op = "delete" ->
               [d EXCEPT !.db[item.table] = Without(rows, item.key)]
          [] item.op = "maybe_update" ->
               LET r == RunClosure(item.arg, present,
                                   IF present THEN rows[item.key] ELSE item.arg)
               IN  IF r.ok
                   THEN [d EXCEPT !.db[item.table] =
                             Without(rows, item.key) @@ (item.key :> r.value)]
                   ELSE [d EXCEPT !.ok = FALSE]

RECURSIVE ApplyItems(_, _)
ApplyItems(d, items) ==
    IF items = <<>> \/ ~d.ok THEN d
    ELSE ApplyItems(ApplyItem(d, Head(items)), Tail(items))

\* Database::apply_batch: all of the batch, or a failure and none of it
ApplyBatch(store, items) ==
    LET d == ApplyItems([db |-> store, ok |-> TRUE], items)
    IN  IF d.ok THEN d ELSE [db |-> store, ok |-> FALSE]

(***************************************************************************)
(* LightningModule::block_height: 0 when the round consensus is absent.    *)
(***************************************************************************)
BlockHeight == block_height

(***************************************************************************)
(* LightningModule::validate_input against the store.                      *)
(***************************************************************************)
InputOk(amount, pub_key) ==
    [ok |-> TRUE, err |-> "-", amount |-> amount, pub_key |-> pub_key]
Err(e) == [ok |-> FALSE, err |-> e, amount |-> 0, pub_key |-> "-"]

\* mutant: a pending incoming contract is spent with the gateway key
SpendingKeyPendingSpendable(account, input) ==
    LET c == account.contract
    IN  CASE c.kind = "Outgoing" ->
               IF c.timelock > BlockHeight
               THEN IF input.witness = "none" THEN Err("MissingPreimage")
                    ELSE IF Sha256OfWitness(input.witness) # c.hash
                         THEN Err("InvalidPreimage")
                         ELSE InputOk(input.amount, c.gateway_key)
               ELSE InputOk(input.amount, c.user_key)
          [] c.kind = "Account" -> InputOk(input.amount, c.key)
          [] c.kind = "Incoming" ->
               IF c.contract.decrypted_preimage.tag = "Some"
               THEN InputOk(input.amount, c.contract.decrypted_preimage.key)
               ELSE InputOk(input.amount, c.contract.gateway_key)

\* the match on account.contract: the key that may spend, or an error
SpendingKey(account, input) ==
    LET c == account.contract
    IN  CASE c.kind = "Outgoing" ->
               IF c.timelock > BlockHeight
               THEN IF input.witness = "none" THEN Err("MissingPreimage")
                    ELSE IF Sha256OfWitness(input.witness) # c.hash
                         THEN Err("InvalidPreimage")
                         ELSE InputOk(input.amount, c.gateway_key)
               ELSE InputOk(input.amount, c.user_key)
          [] c.kind = "Account" -> InputOk(input.amount, c.key)
          [] c.kind = "Incoming" ->
               CASE c.contract.decrypted_preimage.tag = "Pending" ->
                      Err("ContractNotReady")
                 [] c.contract.decrypted_preimage.tag = "Some" ->
                      InputOk(input.amount, c.contract.decrypted_preimage.key)
                 [] c.contract.decrypted_preimage.tag = "Invalid" ->
                      InputOk(input.amount, c.contract.gateway_key)

validate_input(input) ==
    IF input.crontract_id \notin DOMAIN db.Contract
    THEN Err("UnknownContract")
    ELSE LET account == db.Contract[input.crontract_id]
         IN  IF account.amount < input.amount
             THEN Err("InsufficientFunds")
             ELSE SpendingKey(account, input)

\* mutant: the debit is queued before the validation's result is looked at
apply_inputQueueingFirst(input) ==
    LET meta == validate_input(input)
    IN  [res |-> meta,
         items |-> <<MaybeUpdate("Contract", input.crontract_id,
                                 DebitAccount(input.amount))>>]

\* apply_input: the result and the items it appends to its batch
apply_input(input) ==
    LET meta == validate_input(input)
    IN  IF ~meta.ok THEN [res |-> meta, items |-> <<>>]
        ELSE [res |-> meta,
              items |-> <<MaybeUpdate("Contract", input.crontract_id,
                                      DebitAccount(meta.amount))>>]

(***************************************************************************)
(* LightningModule::validate_output and apply_output.                      *)
(***************************************************************************)
\* mutant: a contract output of amount 0 is accepted
validate_outputNoZeroCheck(output) ==
    IF output.kind = "Contract"
    THEN LET c == output.contract
             offer_err ==
                 IF c.kind # "Incoming" THEN "-"
                 ELSE IF c.hash \notin DOMAIN db.Offer THEN "NoOffer"
                 ELSE IF output.amount < db.Offer[c.hash].amount
                      THEN "InsufficientIncomingFunding"
                      ELSE "-"
         IN  IF offer_err # "-" THEN Err(offer_err)
             ELSE InputOk(output.amount, "-")
    ELSE IF ~VerifyCiphertext(output.offer.encrypted_preimage)
         THEN Err("InvalidEncryptedPreimage")
         ELSE InputOk(0, "-")

validate_output(output) ==
    IF output.kind = "Contract"
    THEN LET c == output.contract
             offer_err ==
                 IF c.kind # "Incoming" THEN "-"
                 ELSE IF c.hash \notin DOMAIN db.Offer THEN "NoOffer"
                 ELSE IF output.amount < db.Offer[c.hash].amount
                      THEN "InsufficientIncomingFunding"
                      ELSE "-"
         IN  IF offer_err # "-" THEN Err(offer_err)
             ELSE IF output.amount = 0 THEN Err("ZeroOutput")
             ELSE InputOk(output.amount, "-")
    ELSE IF ~VerifyCiphertext(output.offer.encrypted_preimage)
         THEN Err("InvalidEncryptedPreimage")
         ELSE InputOk(0, "-")

\* the items apply_output appends for a contract output; me is the peer
\* whose threshold_sec_key the module holds
ContractOutputItems(output, out_point, amount, me) ==
    LET c == output.contract
        id == contract_id(c)
    IN  << MaybeUpdate("Contract", id,
                       CreditOrCreate(amount, to_funded(c, out_point))),
           InsertNew("ContractUpdate", out_point,
                     [kind |-> "Contract", id |-> id, outcome |-> to_outcome(c)])
        >>
        \o IF c.kind = "Incoming"
           THEN << InsertNew("ProposeDecryptionShare", id,
                             decrypt_share(me, c.encrypted_preimage).share),
                   Delete("Offer", db.Offer[c.hash].hash) >>
           ELSE <<>>

\* mutant: an offer is registered with a write that replaces a stored row
apply_outputReplacingOffer(output, out_point, me) ==
    LET res == validate_output(output)
    IN  IF ~res.ok THEN [res |-> res, items |-> <<>>, panic |-> FALSE]
        ELSE IF output.kind = "Contract"
        THEN [res |-> res,
              items |-> ContractOutputItems(output, out_point, res.amount, me),
              panic |-> /\ output.contract.kind = "Incoming"
                        /\ ~decrypt_share(me, output.contract.encrypted_preimage).some]
        ELSE [res |-> res,
              items |-> << Delete("Offer", output.offer.hash),
                           InsertNew("Offer", output.offer.hash, output.offer) >>,
              panic |-> FALSE]

\* apply_output: the result, the items appended, and whether it panicked
\* (decrypt_share(..).expect on a malformed ciphertext)
apply_output(output, out_point, me) ==
    LET res == validate_output(output)
    IN  IF ~res.ok THEN [res |-> res, items |-> <<>>, panic |-> FALSE]
        ELSE IF output.kind = "Contract"
        THEN [res |-> res,
              items |-> ContractOutputItems(output, out_point, res.amount, me),
              panic |-> /\ output.contract.kind = "Incoming"
                        /\ ~decrypt_share(me, output.contract.encrypted_preimage).some]
        ELSE [res |-> res,
              items |-> <<InsertNew("Offer", output.offer.hash, output.offer)>>,
              panic |-> FALSE]

(***************************************************************************)
(* The threshold-decryption hooks.                                         *)
(***************************************************************************)
\* the peer whose module this is
LocalPeer == CHOOSE p \in Peers : \A q \in Peers : p <= q

RECURSIVE SetToSeq(_)
SetToSeq(S) ==
    IF S = {} THEN <<>>
    ELSE LET x == CHOOSE y \in S : TRUE IN <<x>> \o SetToSeq(S \ {x})

DecryptionShareCI(id, share) == [contract_id |-> id, share |-> share]

\* consensus_proposal of peer p: one item per ProposeDecryptionShare row.
\* Every peer applies the same outputs, so the peers' rows have the same
\* keys, each with the peer's own share of the contract's ciphertext.
consensus_proposal(p) ==
    LET rows == db.ProposeDecryptionShare
        ids == SetToSeq(DOMAIN rows)
    IN  [k \in 1..Len(ids) |->
            DecryptionShareCI(ids[k], <<p, rows[ids[k]][2]>>)]

\* LightningModule::validate_decryption_share
validate_decryption_share(peer, share, message) == share = <<peer, message>>

\* mutant: every share of a known incoming contract is recorded
AgreedItemUnverified(peer, ci) ==
    IF ci.contract_id \notin DOMAIN db.Contract THEN <<>>
    ELSE LET contract == db.Contract[ci.contract_id].contract
         IN  IF contract.kind # "Incoming" THEN <<>>
             ELSE <<InsertNew("AgreedDecryptionShare",
                              <<ci.contract_id, peer>>, ci.share)>>

\* begin_consensus_epoch, the filter_map closure: the item recorded for
\* one (peer, decryption_share), or none
AgreedItem(peer, ci) ==
    IF ci.contract_id \notin DOMAIN db.Contract THEN <<>>
    ELSE LET contract == db.Contract[ci.contract_id].contract
         IN  IF contract.kind # "Incoming" THEN <<>>
             ELSE IF ~validate_decryption_share(
                          peer, ci.share, contract.contract.encrypted_preimage)
                  THEN <<>>
                  ELSE <<InsertNew("AgreedDecryptionShare",
                                   <<ci.contract_id, peer>>, ci.share)>>

RECURSIVE AgreedItems(_)
AgreedItems(consensus_items) ==
    IF consensus_items = <<>> THEN <<>>
    ELSE AgreedItem(Head(consensus_items).peer, Head(consensus_items).ci)
         \o AgreedItems(Tail(consensus_items))

\* mutant: the plaintext's hash is not compared with the contract's
ClassifyNoHashCheck(preimage, hash) ==
    IF preimage.len # 32 THEN Invalid
    ELSE IF preimage.key # "-" THEN SomePreimage(preimage.key)
    ELSE Invalid

\* end_consensus_epoch: the classification of the combined plaintext
Classify(preimage, hash) ==
    IF preimage.len # 32 THEN Invalid
    ELSE IF hash # preimage.sha THEN Invalid
    ELSE IF preimage.key # "-" THEN SomePreimage(preimage.key)
    ELSE Invalid

\* into_group_map: the (peer, share) pairs agreed for a contract
AgreedShares(id) ==
    { <<k[2], db.AgreedDecryptionShare[k]>> :
        k \in {a \in DOMAIN db.AgreedDecryptionShare : a[1] = id} }

GroupResult(items, panic) == [items |-> items, panic |-> panic]

\* mutant: no guard on a preimage that is already decrypted
DecryptGroupNoGuard(id) ==
    LET shares == AgreedShares(id)
    IN  IF Cardinality(shares) < threshold THEN GroupResult(<<>>, FALSE)
        ELSE IF id \notin DOMAIN db.Contract THEN GroupResult(<<>>, TRUE)
        ELSE IF db.Contract[id].contract.kind # "Incoming"
             THEN GroupResult(<<>>, TRUE)
        ELSE LET incoming == db.Contract[id].contract
                 c == incoming.contract
                 dec == decrypt(shares, c.encrypted_preimage)
                 dp == Classify(dec.preimage, c.hash)
             IN  IF ~dec.ok THEN GroupResult(<<>>, FALSE)
                 ELSE GroupResult(
                        << MaybeUpdate("Contract", id, SetDecryptedPreimage(dp)),
                           MaybeUpdate("ContractUpdate", incoming.out_point,
                                       SetOutcome(dp)) >>,
                        FALSE)

\* mutant: the account is updated, the output outcome is not
DecryptGroupNoOutcome(id) ==
    LET shares == AgreedShares(id)
    IN  IF Cardinality(shares) < threshold THEN GroupResult(<<>>, FALSE)
        ELSE IF id \notin DOMAIN db.Contract THEN GroupResult(<<>>, TRUE)
        ELSE IF db.Contract[id].contract.kind # "Incoming"
             THEN GroupResult(<<>>, TRUE)
        ELSE LET incoming == db.Contract[id].contract
                 c == incoming.contract
                 dec == decrypt(shares, c.encrypted_preimage)
                 dp == Classify(dec.preimage, c.hash)
             IN  IF c.decrypted_preimage # Pending THEN GroupResult(<<>>, FALSE)
                 ELSE IF ~dec.ok THEN GroupResult(<<>>, FALSE)
                 ELSE GroupResult(
                        <<MaybeUpdate("Contract", id, SetDecryptedPreimage(dp))>>,
                        FALSE)

\* mutant: a group below the threshold has its agreed shares removed
DecryptGroupCleaningUp(id) ==
    LET shares == AgreedShares(id)
    IN  IF Cardinality(shares) < threshold
        THEN GroupResult(
               [k \in 1..Len(SetToSeq({sh[1] : sh \in shares})) |->
                   Delete("AgreedDecryptionShare",
                          <<id, SetToSeq({sh[1] : sh \in shares})[k]>>)],
               FALSE)
        ELSE IF id \notin DOMAIN db.Contract THEN GroupResult(<<>>, TRUE)
        ELSE IF db.Contract[id].contract.kind # "Incoming"
             THEN GroupResult(<<>>, TRUE)
        ELSE LET incoming == db.Contract[id].contract
                 c == incoming.contract
                 dec == decrypt(shares, c.encrypted_preimage)
                 dp == Classify(dec.preimage, c.hash)
             IN  IF c.decrypted_preimage # Pending THEN GroupResult(<<>>, FALSE)
                 ELSE IF ~dec.ok THEN GroupResult(<<>>, FALSE)
                 ELSE GroupResult(
                        << MaybeUpdate("Contract", id, SetDecryptedPreimage(dp)),
                           MaybeUpdate("ContractUpdate", incoming.out_point,
                                       SetOutcome(dp)) >>,
                        FALSE)

\* end_consensus_epoch, the body of the loop over the groups
DecryptGroup(id) ==
    LET shares == AgreedShares(id)
    IN  IF Cardinality(shares) < threshold THEN GroupResult(<<>>, FALSE)
        ELSE IF id \notin DOMAIN db.Contract THEN GroupResult(<<>>, TRUE)
        ELSE IF db.Contract[id].contract.kind # "Incoming"
             THEN GroupResult(<<>>, TRUE)
        ELSE LET incoming == db.Contract[id].contract
                 c == incoming.contract
                 dec == decrypt(shares, c.encrypted_preimage)
                 dp == Classify(dec.preimage, c.hash)
             IN  IF c.decrypted_preimage # Pending THEN GroupResult(<<>>, FALSE)
                 ELSE IF ~dec.ok THEN GroupResult(<<>>, FALSE)
                 ELSE GroupResult(
                        << MaybeUpdate("Contract", id, SetDecryptedPreimage(dp)),
                           MaybeUpdate("ContractUpdate", incoming.out_point,
                                       SetOutcome(dp)) >>,
                        FALSE)

\* mutant: the loop ends at the first group it skips
RECURSIVE DecryptGroupsStopAtSkip(_)
DecryptGroupsStopAtSkip(ids) ==
    IF ids = <<>> THEN GroupResult(<<>>, FALSE)
    ELSE LET g == DecryptGroup(Head(ids))
             rest == DecryptGroupsStopAtSkip(Tail(ids))
         IN  IF g.items = <<>> THEN g
             ELSE GroupResult(g.items \o rest.items, g.panic \/ rest.panic)

\* the for loop over the groups, in the order ids
RECURSIVE DecryptGroups(_)
DecryptGroups(ids) ==
    IF ids = <<>> THEN GroupResult(<<>>, FALSE)
    ELSE LET g == DecryptGroup(Head(ids))
             rest == DecryptGroups(Tail(ids))
         IN  GroupResult(g.items \o rest.items, g.panic \/ rest.panic)

\* LightningModule::output_status
output_status(out_point) ==
    IF out_point \in DOMAIN db.ContractUpdate
    THEN [some |-> TRUE, outcome |-> db.ContractUpdate[out_point]]
    ELSE [some |-> FALSE, outcome |-> [kind |-> "None"]]

(***************************************************************************)
(* The engine's processing of one transaction that passed the conflict     *)
(* filter: its inputs, then its outputs, each read against the store as    *)
(* it was before the epoch's batch; one error drops the transaction.       *)
(***************************************************************************)
TxResult(ok, items, panic) == [ok |-> ok, items |-> items, panic |-> panic]

RECURSIVE ApplyInputs(_)
ApplyInputs(inputs) ==
    IF inputs = <<>> THEN TxResult(TRUE, <<>>, FALSE)
    ELSE LET r == apply_input(Head(inputs))
             rest == ApplyInputs(Tail(inputs))
         IN  TxResult(r.res.ok /\ rest.ok, r.items \o rest.items, FALSE)

RECURSIVE ApplyOutputs(_, _)
ApplyOutputs(outputs, out_point) ==
    IF outputs = <<>> THEN TxResult(TRUE, <<>>, FALSE)
    ELSE LET r == apply_output(Head(outputs), out_point, LocalPeer)
             rest == ApplyOutputs(Tail(outputs),
                                  IF Head(outputs).kind = "Contract"
                                  THEN out_point + 1 ELSE out_point)
         IN  TxResult(r.res.ok /\ rest.ok, r.items \o rest.items,
                      r.panic \/ (r.res.ok /\ rest.panic))

process_transaction(tx) ==
    LET i == ApplyInputs(tx.inputs)
        o == ApplyOutputs(tx.outputs, next_out)
    IN  TxResult(i.ok /\ o.ok, i.items \o o.items, i.ok /\ o.panic)

\* the error of the first input that fails, "-" when none does
RECURSIVE FirstInputError(_)
FirstInputError(inputs) ==
    IF inputs = <<>> THEN "-"
    ELSE LET r == apply_input(Head(inputs))
         IN  IF ~r.res.ok THEN r.res.err ELSE FirstInputError(Tail(inputs))

\* the error of the first output that fails, "-" when none does
RECURSIVE FirstOutputError(_)
FirstOutputError(outputs) ==
    IF outputs = <<>> THEN "-"
    ELSE LET r == apply_output(Head(outputs), next_out, LocalPeer)
         IN  IF ~r.res.ok THEN r.res.err ELSE FirstOutputError(Tail(outputs))

\* the error a transaction is dropped with: inputs first, then outputs
TxError(tx) ==
    IF FirstInputError(tx.inputs) # "-" THEN FirstInputError(tx.inputs)
    ELSE FirstOutputError(tx.outputs)

(***************************************************************************)
(* filter_conflicts: a new filter with empty sets over a new stream.       *)
(***************************************************************************)
filter_conflicts ==
    /\ stream # <<>>
    /\ coin_set' = {}
    /\ peg_in_set' = {}
    /\ in_contract_set' = {}
    /\ stream' = <<>>
    /\ results' = <<>>
    /\ UNCHANGED lnVars

(***************************************************************************)
(* ConflictFilter::next for the case that inner_iter yields tx.  The       *)
(* iterator is not fused: next may be called again after it returned None. *)
(***************************************************************************)
ConflictFilter_next(tx) ==
    /\ Len(stream) < MaxStream
    /\ LET st == ScanInputs(tx.inputs,
                            FilterState(coin_set, peg_in_set, in_contract_set))
       IN  /\ coin_set' = st.coin_set
           /\ peg_in_set' = st.peg_in_set
           /\ in_contract_set' = st.in_contract_set
           /\ results' = Append(results, IF st.ok THEN "Some" ELSE "None")
    /\ stream' = Append(stream, tx)
    /\ UNCHANGED lnVars

(***************************************************************************)
(* The hooks as the engine runs them in one epoch: begin_consensus_epoch,  *)
(* the transactions, end_consensus_epoch.                                  *)
(***************************************************************************)
\* the peers that may contribute items other than their proposal
ByzantinePeers == {3}

\* what a peer may contribute to an epoch: nothing, its consensus_proposal,
\* or, a Byzantine peer, one item of its choice (its share of "e1" for the
\* incoming contract I1, its share of another ciphertext for I1, a share
\* for the account A1)
PeerItems(p) ==
    {<<>>, consensus_proposal(p)}
    \cup (IF p \in ByzantinePeers
          THEN { <<DecryptionShareCI("I1", <<p, "e1">>)>>,
                 <<DecryptionShareCI("I1", <<p, "e2">>)>>,
                 <<DecryptionShareCI("A1", <<p, "e1">>)>> }
          ELSE {})

ItemsFrom(p, cis) == [k \in 1..Len(cis) |-> [peer |-> p, ci |-> cis[k]]]

\* the ordered batches of consensus items the peers' contributions make
RECURSIVE ConsensusItems(_)
ConsensusItems(peers) ==
    IF peers = <<>> THEN {<<>>}
    ELSE { ItemsFrom(Head(peers), cis) \o rest :
             cis \in PeerItems(Head(peers)),
             rest \in ConsensusItems(Tail(peers)) }

\* a commit: the hook, its batch, and the consensus items the hook dropped
Commit(hook, items, dropped) ==
    [hook |-> hook, items |-> items, dropped |-> dropped]

NoCommit == Commit("none", <<>>, 0)

\* the peers with a stored agreed share for contract id
AgreedPeers(id) == {a[2] : a \in {k \in DOMAIN db.AgreedDecryptionShare : k[1] = id}}

IsPendingIncoming(id) ==
    /\ id \in DOMAIN db.Contract
    /\ db.Contract[id].contract.kind = "Incoming"
    /\ db.Contract[id].contract.contract.decrypted_preimage = Pending

\* the items of an epoch in which exactly the peers of S contribute, each its
\* consensus_proposal
RECURSIVE ProposalsOf(_, _)
ProposalsOf(S, peers) ==
    IF peers = <<>> THEN <<>>
    ELSE (IF Head(peers) \in S
          THEN ItemsFrom(Head(peers), consensus_proposal(Head(peers)))
          ELSE <<>>)
         \o ProposalsOf(S, Tail(peers))

\* the pending contracts with fewer than threshold shares stored whose
\* peers submit their proposals again, with further peers that bring the
\* count to threshold
ToppedUp(consensus_items) ==
    { id \in DOMAIN db.Contract :
        /\ IsPendingIncoming(id)
        /\ AgreedPeers(id) # {}
        /\ Cardinality(AgreedPeers(id)) < threshold
        /\ \E S \in SUBSET Peers :
               /\ AgreedPeers(id) \subseteq S
               /\ Cardinality(S) >= threshold
               /\ consensus_items = ProposalsOf(S, SetToSeq(Peers)) }

begin_consensus_epoch(consensus_items) ==
    /\ phase = "begin"
    /\ ~failed
    /\ LET items == AgreedItems(consensus_items)
           res == ApplyBatch(db, items)
       IN  /\ db' = res.db
           /\ failed' = ~res.ok
           /\ last_commit' = Commit("begin", items,
                                    Len(consensus_items) - Len(items))
    /\ resubmitted' = ToppedUp(consensus_items)
    /\ last_error' = "-"
    /\ phase' = "txs"
    /\ UNCHANGED <<batch, next_out, block_height, n_polled>>
    /\ UNCHANGED cfVars

CountContractOutputs(tx) ==
    Cardinality({k \in 1..Len(tx.outputs) : tx.outputs[k].kind = "Contract"})

\* the conflict filter yields the next transaction of the stream, or drops
\* it; a transaction it yields is processed and, without an error, its
\* writes join the epoch's batch
ProcessTransaction(tx) ==
    /\ phase = "txs"
    /\ ~failed
    /\ n_polled < MaxEpochTxs
    /\ next_out + CountContractOutputs(tx) - 1 <= MaxOut
    /\ LET st == ScanInputs(tx.inputs,
                            FilterState(coin_set, peg_in_set, in_contract_set))
           r == process_transaction(tx)
       IN  /\ coin_set' = st.coin_set
           /\ peg_in_set' = st.peg_in_set
           /\ in_contract_set' = st.in_contract_set
           /\ IF st.ok /\ r.ok /\ ~r.panic
              THEN /\ batch' = batch \o r.items
                   /\ next_out' = next_out + CountContractOutputs(tx)
                   /\ failed' = FALSE
              ELSE /\ failed' = (st.ok /\ r.panic)
                   /\ UNCHANGED <<batch, next_out>>
           /\ last_error' = IF st.ok THEN TxError(tx) ELSE "Conflict"
    /\ n_polled' = n_polled + 1
    /\ last_commit' = NoCommit
    /\ UNCHANGED <<db, phase, block_height, resubmitted, stream, results>>

\* the stream has ended: the epoch's batch is committed, the filter dropped
CommitTransactions ==
    /\ phase = "txs"
    /\ ~failed
    /\ LET res == ApplyBatch(db, batch)
       IN  /\ db' = res.db
           /\ failed' = ~res.ok
    /\ last_commit' = Commit("txs", batch, 0)
    /\ last_error' = "-"
    /\ batch' = <<>>
    /\ n_polled' = 0
    /\ coin_set' = {}
    /\ peg_in_set' = {}
    /\ in_contract_set' = {}
    /\ phase' = "end"
    /\ UNCHANGED <<next_out, block_height, resubmitted, stream, results>>

\* the orders in which a map with the keys S may be iterated
Orders(S) ==
    {o \in [1..Cardinality(S) -> S] :
        \A i, j \in 1..Cardinality(S) : i # j => o[i] # o[j]}

\* the contracts with a stored agreed share: the keys of the group map
GroupIds == {a[1] : a \in DOMAIN db.AgreedDecryptionShare}

\* into_group_map builds a hash map: the loop visits the groups in any order
end_consensus_epoch ==
    /\ phase = "end"
    /\ ~failed
    /\ \E ids \in Orders(GroupIds) :
          LET g == DecryptGroups(ids)
              res == ApplyBatch(db, g.items)
          IN  /\ db' = IF g.panic THEN db ELSE res.db
              /\ failed' = (g.panic \/ ~res.ok)
              /\ last_commit' = Commit("end", g.items, 0)
    /\ last_error' = "-"
    /\ phase' = "begin"
    /\ UNCHANGED <<batch, next_out, block_height, n_polled, resubmitted>>
    /\ UNCHANGED cfVars

\* the wallet module writes a new round consensus between two epochs
RoundConsensus ==
    /\ phase = "begin"
    /\ ~failed
    /\ block_height < MaxHeight
    /\ block_height' = block_height + 1
    /\ last_commit' = NoCommit
    /\ last_error' = "-"
    /\ UNCHANGED <<db, batch, phase, failed, next_out, n_polled, resubmitted>>
    /\ UNCHANGED cfVars

Init ==
    /\ coin_set = {}
    /\ peg_in_set = {}
    /\ in_contract_set = {}
    /\ stream = <<>>
    /\ results = <<>>
    /\ db = EmptyDb
    /\ batch = <<>>
    /\ phase = "begin"
    /\ failed = FALSE
    /\ next_out = 1
    /\ block_height = 0
    /\ n_polled = 0
    /\ last_commit = NoCommit
    /\ last_error = "-"
    /\ resubmitted = {}

Next ==
    \/ \E consensus_items \in ConsensusItems(SetToSeq(Peers)) :
          begin_consensus_epoch(consensus_items)
    \/ \E tx \in LNTxPool : ProcessTransaction(tx)
    \/ CommitTransactions
    \/ end_consensus_epoch
    \/ RoundConsensus

Spec == Init /\ [][Next]_vars

(***************************************************************************)
(* Vocabulary of the conflict-filter claims.                               *)
(***************************************************************************)
\* the uniqueness key of an input, tagged with its kind
KeyOf(input) ==
    CASE input.kind = "Mint" -> <<"Mint", input.coins>>
      [] input.kind = "Wallet" -> <<"Wallet", input.peg_in>>
      [] input.kind = "LN" -> <<"LN", input.crontract_id>>

KeysOf(tx) == {KeyOf(tx.inputs[k]) : k \in 1..Len(tx.inputs)}

\* the individual mint notes a transaction spends
NotesOf(tx) ==
    UNION { {tx.inputs[k].coins[n] : n \in 1..Len(tx.inputs[k].coins)} :
            k \in {m \in 1..Len(tx.inputs) : tx.inputs[m].kind = "Mint"} }

PairwiseDistinctKeys(tx) ==
    \A a, b \in 1..Len(tx.inputs) :
        a # b => KeyOf(tx.inputs[a]) # KeyOf(tx.inputs[b])

Emitted(j) == results[j] = "Some"

RecordedKeys ==
    {<<"Mint", c>> : c \in coin_set}
    \cup {<<"Wallet", p>> : p \in peg_in_set}
    \cup {<<"LN", c>> : c \in in_contract_set}

\* C1 (as stated): no two emitted transactions share a key, and an emitted
\* transaction is the first transaction of the stream that carries each of
\* its keys.
C1_OnlyFirstCarrierEmitted ==
    \A j \in 1..Len(stream) :
        Emitted(j) =>
            \A i \in 1..(j - 1) : KeysOf(stream[i]) \cap KeysOf(stream[j]) = {}

\* C1 (amended): no two emitted transactions share a uniqueness key of the
\* same kind; of the transactions that carry the same key at most one is
\* emitted, and every carrier that precedes it in the stream was rejected.
C1_NoSharedKey ==
    \A j \in 1..Len(stream) :
        Emitted(j) =>
            \A i \in 1..(j - 1) :
                KeysOf(stream[i]) \cap KeysOf(stream[j]) # {} => ~Emitted(i)

\* C1 witness: a transaction was emitted after an earlier, rejected carrier
\* of one of its keys.
C1_Witness ==
    \E j \in 1..Len(stream) :
        /\ Emitted(j)
        /\ \E i \in 1..(j - 1) :
               /\ KeysOf(stream[i]) \cap KeysOf(stream[j]) # {}
               /\ ~Emitted(i)

\* C2: no individual mint note is spent by two emitted transactions.
C2_NoNoteTwice ==
    \A i, j \in 1..Len(stream) :
        (i < j /\ Emitted(i) /\ Emitted(j)) =>
            NotesOf(stream[i]) \cap NotesOf(stream[j]) = {}

\* C3: every transaction whose keys are pairwise distinct and occur in no
\* previously emitted transaction is emitted.
C3_FreshIsEmitted ==
    \A j \in 1..Len(stream) :
        ( /\ PairwiseDistinctKeys(stream[j])
          /\ \A i \in 1..(j - 1) :
                 Emitted(i) => KeysOf(stream[i]) \cap KeysOf(stream[j]) = {} )
        => Emitted(j)

\* C4: a rejected transaction leaves the three sets as they were, an
\* accepted one adds all its keys.
C4_RejectChangesNothing ==
    [][ Len(stream') = Len(stream) + 1 =>
            IF results'[Len(stream')] = "None"
              THEN /\ coin_set' = coin_set
                   /\ peg_in_set' = peg_in_set
                   /\ in_contract_set' = in_contract_set
              ELSE RecordedKeys' = RecordedKeys \cup KeysOf(stream'[Len(stream')])
      ]_vars

(***************************************************************************)
(* Vocabulary of the module's claims.                                      *)
(***************************************************************************)
IncomingIds(store) ==
    {id \in DOMAIN store.Contract : store.Contract[id].contract.kind = "Incoming"}

DecryptedPreimageOf(store, id) ==
    store.Contract[id].contract.contract.decrypted_preimage

\* the batch items that write the decrypted preimage of account id
PreimageWrites(items, id) ==
    {k \in 1..Len(items) :
        /\ items[k].op = "maybe_update"
        /\ items[k].table = "Contract"
        /\ items[k].key = id
        /\ items[k].arg.fn = "set_preimage"}

\* C5: once an incoming contract's decrypted_preimage is Some or Invalid, no
\* step changes it, deletes the account or commits a write to the field; a
\* change starts from Pending.
C5_PreimageSetOnce ==
    [][ \A id \in IncomingIds(db) :
            DecryptedPreimageOf(db, id) # Pending =>
                /\ id \in IncomingIds(db')
                /\ DecryptedPreimageOf(db', id) = DecryptedPreimageOf(db, id)
                /\ PreimageWrites(last_commit'.items, id) = {}
      ]_vars

\* C5 witness: an end_consensus_epoch ran over the threshold shares of a
\* contract that was already decrypted, and wrote nothing.
C5_Witness ==
    /\ last_commit = Commit("end", <<>>, 0)
    /\ \E id \in IncomingIds(db) :
           /\ DecryptedPreimageOf(db, id) # Pending
           /\ Cardinality(AgreedPeers(id)) >= threshold

\* C6: after every commit every contract account's amount is >= 0.
C6_AmountNonNegative ==
    \A id \in DOMAIN db.Contract : db.Contract[id].amount >= 0

\* C6 witness: the epoch's batch debited an account down to zero.
C6_Witness ==
    /\ last_commit.hook = "txs"
    /\ ~failed
    /\ \E k \in 1..Len(last_commit.items) :
           /\ last_commit.items[k].op = "maybe_update"
           /\ last_commit.items[k].arg.fn = "debit"
           /\ db.Contract[last_commit.items[k].key].amount = 0

\* C7: every stored agreed share belongs to an existing incoming contract
\* and verifies against its peer and the contract's encrypted preimage.
C7_AgreedSharesValid ==
    \A a \in DOMAIN db.AgreedDecryptionShare :
        /\ a[1] \in IncomingIds(db)
        /\ validate_decryption_share(
               a[2], db.AgreedDecryptionShare[a],
               db.Contract[a[1]].contract.contract.encrypted_preimage)

\* C7 witness: a begin_consensus_epoch recorded a share and dropped another.
C7_Witness ==
    /\ last_commit.hook = "begin"
    /\ ~failed
    /\ last_commit.items # <<>>
    /\ last_commit.dropped > 0

\* C8: when the peers that hold stored shares of a pending contract submit
\* their proposals again and further peers bring the count to threshold,
\* begin_consensus_epoch completes and the contract is decrypted when the
\* epoch ends.
C8_SharesAccumulate ==
    \A id \in resubmitted :
        /\ ~failed
        /\ phase = "begin" => ~IsPendingIncoming(id)

\* C9: no ProposeDecryptionShare row remains for a contract whose
\* decrypted_preimage is Some or Invalid.
C9_ProposalRemoved ==
    \A id \in DOMAIN db.ProposeDecryptionShare : IsPendingIncoming(id)

\* C10: every output outcome Contract{id, Incoming(s)} carries the
\* decrypted_preimage of contract account id.
C10_OutcomeMirrorsAccount ==
    \A op \in DOMAIN db.ContractUpdate :
        LET u == db.ContractUpdate[op]
        IN  (u.kind = "Contract" /\ u.outcome.variant = "Incoming") =>
                /\ u.id \in IncomingIds(db)
                /\ u.outcome.value = DecryptedPreimageOf(db, u.id)

\* C10 witness: an incoming contract's outcome shows the finished decryption.
C10_Witness ==
    \E op \in DOMAIN db.ContractUpdate :
        /\ db.ContractUpdate[op].outcome.variant = "Incoming"
        /\ db.ContractUpdate[op].outcome.value # Pending

\* the out points of the output outcomes of incoming contracts with hash h
IncomingOutcomes(store, h) ==
    {op \in DOMAIN store.ContractUpdate :
        /\ store.ContractUpdate[op].kind = "Contract"
        /\ store.ContractUpdate[op].outcome.variant = "Incoming"
        /\ ContractOfId[store.ContractUpdate[op].id].hash = h}

Hashes == {ContractOfId[id].hash : id \in {"I1", "I2"}}

\* the batch items that register an offer for hash h
OfferWrites(items, h) ==
    {k \in 1..Len(items) :
        /\ items[k].op = "insert_new"
        /\ items[k].table = "Offer"
        /\ items[k].key = h}

\* C11: one registered offer funds at most one incoming contract output: a
\* step commits at most one new incoming funding for hash h when Offer(h)
\* was stored before it, none when it was not, and the offer is gone after
\* the funding unless the same batch registers it again.
C11_OfferFundsOnce ==
    [][ \A h \in Hashes :
          LET funded == IncomingOutcomes(db', h) \ IncomingOutcomes(db, h)
          IN  /\ Cardinality(funded) <= (IF h \in DOMAIN db.Offer THEN 1 ELSE 0)
              /\ funded # {} =>
                    \/ h \notin DOMAIN db'.Offer
                    \/ OfferWrites(last_commit'.items, h) # {}
      ]_vars


\* the witnesses an input for an outgoing contract may carry
Witnesses == {"none", "good", "bad"}

\* what validate_input owes an input of amount 1 with witness w for the
\* outgoing contract c while c is not expired
PreimagePath(c, w) ==
    IF w = "none" THEN Err("MissingPreimage")
    ELSE IF Sha256OfWitness(w) # c.hash THEN Err("InvalidPreimage")
    ELSE InputOk(1, c.gateway_key)

\* C12: for a funded outgoing contract validate_input takes the preimage
\* path and the gateway key while the contract is not expired, the user key
\* once it is; at timelock = block height the contract is not yet expired.
C12_TimelockStrict ==
    \A id \in DOMAIN db.Contract :
        LET account == db.Contract[id]
            c == account.contract
        IN  (c.kind = "Outgoing" /\ account.amount >= 1) =>
                \A w \in Witnesses :
                    validate_input(LNInput(id, 1, w)) =
                        IF c.timelock >= BlockHeight
                        THEN PreimagePath(c, w)
                        ELSE InputOk(1, c.user_key)

\* what validate_input owes an input of amount a for the funded incoming
\* contract id
IncomingSpend(id, a) ==
    LET c == db.Contract[id].contract.contract
    IN  CASE c.decrypted_preimage.tag = "Pending" -> Err("ContractNotReady")
          [] c.decrypted_preimage.tag = "Some" ->
               InputOk(a, c.decrypted_preimage.key)
          [] c.decrypted_preimage.tag = "Invalid" -> InputOk(a, c.gateway_key)

\* the amounts an input may ask for
InputAmounts == 1..(MaxOut + 1)

\* C13 (as stated): every input for a pending incoming contract fails with
\* ContractNotReady and queues no write; after the decryption the preimage
\* key authorizes an input for Some, the gateway key for Invalid.
C13_PendingIsNotReady ==
    \A id \in IncomingIds(db) : \A a \in InputAmounts :
        LET r == apply_input(LNInput(id, a, "none"))
        IN  IF DecryptedPreimageOf(db, id) = Pending
            THEN r.res = Err("ContractNotReady") /\ r.items = <<>>
            ELSE a <= db.Contract[id].amount => r.res = IncomingSpend(id, a)

\* C13 (amended): an input that the balance of an incoming contract covers
\* fails with ContractNotReady while the decryption is pending, one for more
\* than the balance with InsufficientFunds; neither queues a write.  After
\* the decryption the preimage key authorizes an input for Some, the gateway
\* key for Invalid; and no step lowers the balance of a pending incoming
\* contract.
C13_NoSpendWhilePending ==
    /\ [](\A id \in IncomingIds(db) : \A a \in InputAmounts :
            LET r == apply_input(LNInput(id, a, "none"))
                owed == IF a > db.Contract[id].amount
                        THEN Err("InsufficientFunds")
                        ELSE IncomingSpend(id, a)
            IN  /\ validate_input(LNInput(id, a, "none")) = owed
                /\ r.res = owed
                /\ ~r.res.ok => r.items = <<>>)
    /\ [][ \A id \in IncomingIds(db) :
             DecryptedPreimageOf(db, id) = Pending =>
                 /\ id \in IncomingIds(db')
                 /\ db'.Contract[id].amount >= db.Contract[id].amount
         ]_vars

\* C13 witness: a transaction that spends a funded, pending incoming contract
\* was dropped with ContractNotReady.
C13_Witness ==
    /\ last_error = "ContractNotReady"
    /\ \E id \in IncomingIds(db) \cap in_contract_set :
           /\ DecryptedPreimageOf(db, id) = Pending
           /\ db.Contract[id].amount >= 1
    /\ batch = <<>>

\* the contract outputs of amount 0, one per contract of the model
ZeroOutputs == {ContractOutput(0, ContractOfId[id]) : id \in ContractIds}

\* the offer outputs with a well-formed encrypted preimage
WellFormedOffers ==
    {OfferOutput(o) : o \in {Offer1, Offer2, OfferFree}}

\* C14 (as stated): every contract output of amount 0 is rejected with
\* ZeroOutput, whatever its contract variant, and queues no write; a
\* well-formed offer output is accepted with amount 0.
C14_ZeroOutputRejected ==
    /\ \A o \in ZeroOutputs :
           /\ validate_output(o) = Err("ZeroOutput")
           /\ apply_output(o, next_out, LocalPeer).items = <<>>
    /\ \A o \in WellFormedOffers : validate_output(o) = InputOk(0, "-")

\* the error validate_output owes a contract output of amount 0: for an
\* incoming contract the offer is looked at first
ZeroOutputError(c) ==
    IF c.kind # "Incoming" THEN "ZeroOutput"
    ELSE IF c.hash \notin DOMAIN db.Offer THEN "NoOffer"
    ELSE IF db.Offer[c.hash].amount > 0 THEN "InsufficientIncomingFunding"
    ELSE "ZeroOutput"

\* C14 (amended): every contract output of amount 0 is rejected and queues
\* no write; the error is ZeroOutput for an account or outgoing contract and
\* for an incoming contract whose offer asks for amount 0, NoOffer or
\* InsufficientIncomingFunding for the other incoming contracts; a
\* well-formed offer output is accepted with amount 0.
C14_ZeroOutputNeverApplied ==
    /\ \A o \in ZeroOutputs :
           /\ validate_output(o) = Err(ZeroOutputError(o.contract))
           /\ apply_output(o, next_out, LocalPeer).res = validate_output(o)
           /\ apply_output(o, next_out, LocalPeer).items = <<>>
    /\ \A o \in WellFormedOffers : validate_output(o) = InputOk(0, "-")

\* C14 witness: a transaction was dropped with ZeroOutput while an offer
\* for amount 0 was stored, and nothing was queued.
C14_Witness ==
    /\ last_error = "ZeroOutput"
    /\ batch = <<>>
    /\ \E h \in DOMAIN db.Offer : db.Offer[h].amount = 0

FinalState(c) ==
    LET pt == Plaintext(c.encrypted_preimage)
    IN  IF pt.len = 32 /\ pt.sha = c.hash /\ pt.key # "-"
        THEN [tag |-> "Some", key |-> pt.key]
        ELSE [tag |-> "Invalid", key |-> "-"]

\* C16: when the epoch has ended, every incoming contract with agreed shares
\* of at least threshold distinct peers has left Pending for its final
\* state, and output_status of its out point reports that state.
C16_HappyPath ==
    (phase = "begin" /\ ~failed) =>
        \A id \in IncomingIds(db) :
            Cardinality(AgreedPeers(id)) >= threshold =>
                LET funded == db.Contract[id].contract
                IN  /\ funded.contract.decrypted_preimage
                         = FinalState(funded.contract)
                    /\ output_status(funded.out_point) =
                         [some |-> TRUE,
                          outcome |-> [kind |-> "Contract", id |-> id,
                                       outcome |->
                                         [variant |-> "Incoming",
                                          value |-> FinalState(funded.contract)]]]

\* C16 witness: the end_consensus_epoch that just ran decrypted a contract.
C16_Witness ==
    /\ phase = "begin"
    /\ ~failed
    /\ last_commit.hook = "end"
    /\ \E id \in IncomingIds(db) :
           /\ PreimageWrites(last_commit.items, id) # {}
           /\ Cardinality(AgreedPeers(id)) >= threshold
           /\ DecryptedPreimageOf(db, id) # Pending

\* the replicated part of the store: all tables but the peer's own
\* proposed shares
Replicated(store) ==
    [Contract |-> store.Contract, ContractUpdate |-> store.ContractUpdate,
     Offer |-> store.Offer, AgreedDecryptionShare |-> store.AgreedDecryptionShare]

\* a batch item with the peer's own share blanked
ReplicatedItem(item) ==
    IF item.table = "ProposeDecryptionShare" THEN [item EXCEPT !.arg = "-"]
    ELSE item

ReplicatedItems(items) == [k \in 1..Len(items) |-> ReplicatedItem(items[k])]

\* apply_output gives every peer the same result and, up to the peer's own
\* share, the same writes
SameForEveryPeer(output) ==
    LET b == apply_output(output, next_out, LocalPeer)
    IN  \A me \in Peers \ {LocalPeer} :
            LET a == apply_output(output, next_out, me)
            IN  /\ a.res = b.res
                /\ a.panic = b.panic
                /\ ReplicatedItems(a.items) = ReplicatedItems(b.items)

\* the outputs of the transactions the epochs are built from
OutputPool == UNION {{tx.outputs[k] : k \in 1..Len(tx.outputs)} : tx \in LNTxPool}

\* C17: the hooks give every peer the same replicated state: apply_output
\* does not depend on the peer but for the share it proposes, and
\* end_consensus_epoch ends with the same store and the same failure in
\* whatever order it visits the groups of agreed shares.
C17_Deterministic ==
    /\ [](phase = "txs" => \A output \in OutputPool : SameForEveryPeer(output))
    /\ [][ (phase = "end" /\ phase' = "begin") =>
             \A ids \in Orders(GroupIds) :
                 LET g == DecryptGroups(ids)
                     res == ApplyBatch(db, g.items)
                 IN  /\ failed' = (g.panic \/ ~res.ok)
                     /\ Replicated(db') =
                          Replicated(IF g.panic THEN db ELSE res.db)
                     /\ db'.ProposeDecryptionShare = db.ProposeDecryptionShare
         ]_vars

\* C17 witness: an end_consensus_epoch decrypted two contracts, I2 before I1.
C17_Witness ==
    /\ last_commit.hook = "end"
    /\ ~failed
    /\ \E i, j \in 1..Len(last_commit.items) :
           /\ i < j
           /\ i \in PreimageWrites(last_commit.items, "I2")
           /\ j \in PreimageWrites(last_commit.items, "I1")

\* the agreed shares stored for contract id
AgreedRowsOf(store, id) ==
    [k \in {a \in DOMAIN store.AgreedDecryptionShare : a[1] = id} |->
        store.AgreedDecryptionShare[k]]

OutcomeRowOf(store, id) ==
    LET out_point == store.Contract[id].contract.out_point
    IN  IF out_point \in DOMAIN store.ContractUpdate
        THEN <<store.ContractUpdate[out_point]>>
        ELSE <<>>

\* C18: an incoming contract leaves Pending only in an end_consensus_epoch
\* that finds the agreed shares of at least threshold distinct peers stored
\* for it; with fewer, end_consensus_epoch leaves the contract's account, its
\* output outcome and its stored agreed shares as they were.
C18_PendingLeftAtThreshold ==
    [][ \A id \in IncomingIds(db) :
          /\ ( /\ DecryptedPreimageOf(db, id) = Pending
               /\ DecryptedPreimageOf(db', id) # Pending )
             => /\ phase = "end"
                /\ phase' = "begin"
                /\ Cardinality(AgreedPeers(id)) >= threshold
          /\ ( /\ phase = "end"
               /\ phase' = "begin"
               /\ Cardinality(AgreedPeers(id)) < threshold )
             => /\ db'.Contract[id] = db.Contract[id]
                /\ OutcomeRowOf(db', id) = OutcomeRowOf(db, id)
                /\ AgreedRowsOf(db', id) = AgreedRowsOf(db, id)
      ]_vars

\* C18 witness: an end_consensus_epoch decrypted one contract and left
\* another, with one agreed share stored, pending.
C18_Witness ==
    /\ last_commit.hook = "end"
    /\ ~failed
    /\ \E id, other \in IncomingIds(db) :
           /\ PreimageWrites(last_commit.items, id) # {}
           /\ DecryptedPreimageOf(db, id) # Pending
           /\ Cardinality(AgreedPeers(other)) = 1
           /\ DecryptedPreimageOf(db, other) = Pending

\* the batch items stored as they were queued
Recorded(store, items) ==
    \A k \in 1..Len(items) :
        /\ items[k].key \in DOMAIN store[items[k].table]
        /\ store[items[k].table][items[k].key] = items[k].arg

\* C19: begin_consensus_epoch commits, and every item of the batch that
\* refers to an existing incoming contract and verifies is stored as
\* AgreedDecryptionShare(contract, peer), whatever items were dropped
\* around it.
C19_ValidItemsRecorded ==
    [][ (phase = "begin" /\ phase' = "txs")
          => /\ ~failed'
             /\ Recorded(db', last_commit'.items)
      ]_vars

\* a funded contract without the one field that end_consensus_epoch writes
ImmutableFields(funded_contract) ==
    IF funded_contract.kind = "Incoming"
    THEN [funded_contract EXCEPT !.contract.decrypted_preimage = Pending]
    ELSE funded_contract

\* what the closures queued in items add to the balance of account id
RECURSIVE NetAmount(_, _)
NetAmount(items, id) ==
    IF items = <<>> THEN 0
    ELSE (IF Head(items).table = "Contract" /\ Head(items).key = id
          THEN CASE Head(items).arg.fn = "credit" -> Head(items).arg.amount
                 [] Head(items).arg.fn = "debit" -> 0 - Head(items).arg.amount
                 [] OTHER -> 0
          ELSE 0)
         + NetAmount(Tail(items), id)

\* C20: no step deletes a contract account or an output outcome, or changes
\* an account's contract variant, its immutable fields or its out_point; an
\* account's amount changes only when the transactions of an epoch commit,
\* and then by the amounts of the inputs that refer to it and of the outputs
\* that fund it.
C20_Frame ==
    [][ /\ \A id \in DOMAIN db.Contract :
              /\ id \in DOMAIN db'.Contract
              /\ ImmutableFields(db'.Contract[id].contract)
                   = ImmutableFields(db.Contract[id].contract)
              /\ db'.Contract[id].amount
                   = db.Contract[id].amount
                     + (IF phase = "txs" /\ phase' = "end" /\ ~failed'
                        THEN NetAmount(batch, id) ELSE 0)
        /\ \A out_point \in DOMAIN db.ContractUpdate :
              /\ out_point \in DOMAIN db'.ContractUpdate
              /\ db'.ContractUpdate[out_point].id = db.ContractUpdate[out_point].id
        /\ \A id \in (DOMAIN db'.Contract) \ DOMAIN db.Contract :
              db'.Contract[id].amount = NetAmount(batch, id)
      ]_vars

\* C20 witness: the transactions of an epoch committed an input that spends
\* from an account and an output that funds an account that existed.
C20_Witness ==
    /\ last_commit.hook = "txs"
    /\ ~failed
    /\ \E i, j \in 1..Len(last_commit.items) :
           /\ last_commit.items[i].table = "Contract"
           /\ last_commit.items[i].arg.fn = "debit"
           /\ last_commit.items[i].arg.amount > 0
           /\ last_commit.items[j].table = "Contract"
           /\ last_commit.items[j].arg.fn = "credit"
           /\ last_commit.items[j].arg.amount > 0
           /\ db.Contract[last_commit.items[j].key].amount
                > NetAmount(last_commit.items, last_commit.items[j].key)

(***************************************************************************)
(* Epochs in which every peer that contributes submits exactly the items   *)
(* of its consensus_proposal; a peer may be absent from an epoch.          *)
(***************************************************************************)
ProposedItems == {ProposalsOf(S, SetToSeq(Peers)) : S \in SUBSET Peers}

InitP == Init

NextP ==
    \/ \E consensus_items \in ProposedItems :
          begin_consensus_epoch(consensus_items)
    \/ \E tx \in LNTxPool : ProcessTransaction(tx)
    \/ CommitTransactions
    \/ end_consensus_epoch
    \/ RoundConsensus

SpecP == InitP /\ [][NextP]_vars

\* C21: when the peers submit their consensus_proposal, no
\* begin_consensus_epoch queues insert_new for an
\* AgreedDecryptionShare(contract, peer) key that is already stored.
C21_NoDuplicateShare ==
    [][ (phase = "begin" /\ phase' = "txs")
          => \A k \in 1..Len(last_commit'.items) :
                last_commit'.items[k].key \notin DOMAIN db.AgreedDecryptionShare
      ]_vars

\* LightningModuleError: the errors of validate_input and of validate_output
InputErrors ==
    {"UnknownContract", "InsufficientFunds", "MissingPreimage",
     "InvalidPreimage", "ContractNotReady"}

OutputErrors ==
    {"NoOffer", "InsufficientIncomingFunding", "ZeroOutput",
     "InvalidEncryptedPreimage"}

\* the inputs of the transactions the epochs are built from
InputPool == UNION {{tx.inputs[k] : k \in 1..Len(tx.inputs)} : tx \in LNTxPool}

\* C22: an apply_input or apply_output that returns an error queues no
\* write, whether or not the caller validated first, and the transaction it
\* fails leaves the store and the epoch's batch as they were.
C22_FailedApplyWritesNothing ==
    /\ [](phase = "txs" =>
            /\ \A input \in InputPool :
                  LET r == apply_input(input)
                  IN  ~r.res.ok => /\ r.items = <<>>
                                   /\ r.res.err \in InputErrors
            /\ \A output \in OutputPool :
                  LET r == apply_output(output, next_out, LocalPeer)
                  IN  ~r.res.ok => /\ r.items = <<>>
                                   /\ ~r.panic
                                   /\ r.res.err \in OutputErrors)
    /\ [][ last_error' \in InputErrors \cup OutputErrors
             => /\ db' = db
                /\ batch' = batch
                /\ next_out' = next_out
                /\ ~failed'
         ]_vars

\* C22 witness: a transaction failed in apply after an earlier transaction
\* of the epoch had queued writes, over a store that holds accounts.
C22_Witness ==
    /\ last_error \in InputErrors \cup OutputErrors
    /\ batch # <<>>
    /\ DOMAIN db.Contract # {}

InitCF == Init

NextCF ==
    \/ \E tx \in CFTxPool : ConflictFilter_next(tx)
    \/ filter_conflicts

SpecCF == InitCF /\ [][NextCF]_vars

====
